---- MODULE Spec2Model ----
(***************************************************************************)
(* Model of the 1-to-1 video call application.                             *)
(*                                                                         *)
(* Server side: the room table of call.controller.js (activeRooms) and the *)
(* Socket.IO signaling handler (connectedUsers, cleanupInProgress, the     *)
(* per-room broadcast channels, and the handlers for join-room, offer,     *)
(* answer, ice-candidate, leave-room, toggle-media and disconnect).        *)
(* Node runs every handler to completion, so each handler is one action.   *)
(*                                                                         *)
(* Client side: one call session of CallRoom.jsx / useWebRTC.js, and the   *)
(* adaptive bitrate controller of useWebRTC.js.                            *)
(***************************************************************************)
EXTENDS Integers, Sequences, FiniteSets, TLC

\* ------------------------------------------------------------------ bounds
\* Number of authenticated users (participant ids 1..NumUsers).
NumUsers == 3
\* Number of transport connections opened over a run (socket ids are fresh).
MaxSockets == 3
\* Number of rooms created over a run (room ids are fresh random tokens).
MaxRooms == 2

Users == 1..NumUsers
SocketIds == 1..MaxSockets
RoomIds == 1..MaxRooms

\* The `null` room id of a connected-user record.
NoRoom == 0

\* An absent user id: an undefined payload field, the `null` remote user.
NoUser == 0

\* Reasons Socket.IO passes to the 'disconnect' handler.
DisconnectCauses == {"transport close", "ping timeout"}

VARIABLES
    activeRooms,        \* call.controller.js: Map roomId -> {old, participants}
    connectedUsers,     \* socket handler: Map userId -> {socketId, roomId}
    cleanupInProgress,  \* socket handler: Set of <<userId, roomId>> cleanup keys
    sockets,            \* live connections: socket id -> authenticated user id
    joined,             \* Socket.IO channels: room id -> set of subscribed socket ids
    nextSock,           \* next fresh socket id
    nextUser,           \* next user id that has not connected yet
    nextRoom,           \* next fresh room id
    out,                \* messages emitted by the handler that ran last, in order
    lastEvent           \* the event the last handler ran for

serverVars == <<activeRooms, connectedUsers, cleanupInProgress, sockets, joined,
                nextSock, nextUser, nextRoom, out, lastEvent>>

VARIABLES
    roleRef,                  \* CallRoom: "caller" | "joiner" | "none" (null)
    remoteUser,               \* CallRoom: the remote participant's id, or NoUser (null)
    remoteUserLockedRef,      \* CallRoom: the identity lock
    cleanupPerformedRef,      \* CallRoom: performCleanup has run for this call
    effectRan,                \* CallRoom: the call setup effect has run
    mediaPending,             \* CallRoom: setupCall is waiting for initializeMedia
    localStreamRef,           \* useWebRTC: a local stream exists
    remoteStreamRef,          \* useWebRTC: a remote stream exists
    isAudioEnabled,           \* useWebRTC: the local audio track is enabled
    isVideoEnabled,           \* useWebRTC: the local video track is enabled
    peerConnectionRef,        \* useWebRTC: the current connection's id, or NoPc (null)
    connections,              \* the RTCPeerConnection objects created so far
    pendingIceCandidatesRef,  \* useWebRTC: the candidate buffer
    tasks,                    \* async functions suspended at an await
    nextCandidate,            \* arrival number of the next remote candidate
    heldBack,                 \* history: candidates buffered and not applied since
    flushed,                  \* history: the flushes the last step completed
    emitted,                  \* messages the session emitted in the last step
    lastClientEvent           \* the event the last client step handled

clientVars == <<roleRef, remoteUser, remoteUserLockedRef, cleanupPerformedRef, effectRan,
                mediaPending, localStreamRef, remoteStreamRef, isAudioEnabled,
                isVideoEnabled, peerConnectionRef, connections,
                pendingIceCandidatesRef, tasks, nextCandidate, heldBack, flushed,
                emitted, lastClientEvent>>

VARIABLES
    bitrateIntervalRef,   \* useWebRTC: the connection the running timer samples, or NoPc
    bitrateTimers,        \* the timers set by setInterval and not cleared, by connection
    isUsingTurnRef,       \* useWebRTC: a relay candidate pair was detected
    currentBitrateRef,    \* useWebRTC: the bitrate whose application completed last
    mediaPaths,           \* per RTCPeerConnection: path, ICE state, video sender parameters
    bitrateTasks,         \* controller functions suspended at an await
    lastBitrateEvent      \* the controller step that ran last

bitrateVars == <<bitrateIntervalRef, bitrateTimers, isUsingTurnRef, currentBitrateRef, mediaPaths,
                 bitrateTasks, lastBitrateEvent>>

VARIABLES
    session,          \* per party: the call session's state (CallRoom + useWebRTC)
    sessionStage,     \* per party: "closed" | "open" | "media" | "ready" (setupCall)
    uplink,           \* per party: events emitted and not yet handled by the server
    downlink,         \* per party: server messages not yet handled by the session
    connectionState,  \* per party: useWebRTC connectionState, "new" | "connected"
    sent              \* history: per party, every event the session has emitted

callVars == <<session, sessionStage, uplink, downlink, connectionState, sent>>

vars == <<serverVars, clientVars, bitrateVars, callVars>>

\* ----------------------------------------------------------------- helpers
\* Map.set on a function with a dynamic domain.
Put(f, k, v) == [x \in (DOMAIN f) \cup {k} |-> IF x = k THEN v ELSE f[x]]

\* Map.delete.
Remove(f, k) == [x \in (DOMAIN f) \ {k} |-> f[x]]

\* The socket ids of a set in ascending order.
SeqOfSet(S) == SelectSeq([i \in 1..MaxSockets |-> i], LAMBDA x : x \in S)

\* One emitted message: the receiving socket (0: the HTTP response), the event
\* name, the stamped sender id, a text (error message, leave reason, payload) and,
\* for room-users, the participant list.
Msg(to, ev, from, text, list) ==
    [to |-> to, ev |-> ev, from |-> from, text |-> text, list |-> list]

Event(ev, sock, room, arg) == [ev |-> ev, sock |-> sock, room |-> room, arg |-> arg]

\* The server's mutable state as one value, so that handlers can call each other.
ServerState ==
    [rooms |-> activeRooms, users |-> connectedUsers, cip |-> cleanupInProgress,
     chan |-> joined, emits |-> <<>>]

\* socket.emit(ev, ...): one message to the socket itself.
EmitSelf(st, s, ev, from, text, list) ==
    [st EXCEPT !.emits = @ \o <<Msg(s, ev, from, text, list)>>]

\* socket.to(roomId).emit(ev, ...): one message to every socket subscribed to the
\* room's channel except the sending socket.
BroadcastTargets(st, s, r) == st.chan[r] \ {s}

EmitToRoom(st, s, r, ev, from, text) ==
    LET targets == SeqOfSet(BroadcastTargets(st, s, r))
    IN [st EXCEPT !.emits =
            @ \o [i \in 1..Len(targets) |-> Msg(targets[i], ev, from, text, <<>>)]]

\* The participant ids listed in a room.
MemberIds(room) == {room.participants[i].odtId : i \in 1..Len(room.participants)}

\* ------------------------------------------------------- server: handlers
\* handleUserLeave(socket, roomId, reason), for the socket s of user u.
LeaveKey(u, r) == <<u, r>>

\* A leave that filters the member out but never deletes the room.
RemoveParticipantKeepingRoom(rooms, u, r) ==
    [rooms EXCEPT ![r].participants = SelectSeq(@, LAMBDA p : p.odtId # u)]

\* The room table after the leave: the member is filtered out and an empty room
\* is deleted.
RemoveParticipant(rooms, u, r) ==
    LET kept == SelectSeq(rooms[r].participants, LAMBDA p : p.odtId # u)
    IN IF Len(kept) = 0
       THEN Remove(rooms, r)
       ELSE [rooms EXCEPT ![r].participants = kept]

\* A leave that notifies the others whether or not a member was removed.
LeaveNotifiesAlways(rooms, u, r) == TRUE

\* Whether the leave notifies the others: the participant count changed.
LeaveNotifies(rooms, u, r) ==
    Len(SelectSeq(rooms[r].participants, LAMBDA p : p.odtId # u))
        # Len(rooms[r].participants)

\* A finally block that leaves the cleanup key in the set.
ReleaseCleanupKeyNever(cip, u, r) == cip

\* finally: cleanupInProgress.delete(cleanupKey)
ReleaseCleanupKey(cip, u, r) == cip \ {LeaveKey(u, r)}

HandleUserLeave(st, s, u, r, reason) ==
    IF LeaveKey(u, r) \in st.cip
    THEN st
    ELSE
        LET \* cleanupInProgress.add(cleanupKey); socket.leave(roomId)
            st1 == [st EXCEPT !.cip = @ \cup {LeaveKey(u, r)},
                              !.chan[r] = @ \ {s}]
            st2 == IF r \in DOMAIN st1.rooms
                   THEN LET st2a == IF LeaveNotifies(st1.rooms, u, r)
                                    THEN EmitToRoom(st1, s, r, "user-left", u, reason)
                                    ELSE st1
                        IN [st2a EXCEPT !.rooms = RemoveParticipant(st1.rooms, u, r)]
                   ELSE st1
            \* clear the room association of the user's record, if there is one
            st3 == IF u \in DOMAIN st2.users
                   THEN [st2 EXCEPT !.users[u].roomId = NoRoom]
                   ELSE st2
        IN [st3 EXCEPT !.cip = ReleaseCleanupKey(@, u, r)]

\* The statements of the try block that call into Socket.IO and so may throw.
ThrowPoints == {"socket.leave", "emit"}

\* handleUserLeave when the statement named by `at` throws: the statements before
\* it have taken effect, the catch block logs, the finally block runs.
HandleUserLeaveThrowing(st, s, u, r, at) ==
    IF LeaveKey(u, r) \in st.cip
    THEN st
    ELSE
        LET st1 == [st EXCEPT !.cip = @ \cup {LeaveKey(u, r)}]
            st2 == IF at = "socket.leave"
                   THEN st1
                   ELSE [st1 EXCEPT !.chan[r] = @ \ {s}]
            st3 == IF at = "emit" /\ r \in DOMAIN st2.rooms
                   THEN [st2 EXCEPT !.rooms[r].participants =
                                        SelectSeq(@, LAMBDA p : p.odtId # u)]
                   ELSE st2
        IN [st3 EXCEPT !.cip = ReleaseCleanupKey(@, u, r)]

\* The server's registries take the values of a handler's resulting state.
ServerTakes(st, ev) ==
    /\ activeRooms' = st.rooms
    /\ connectedUsers' = st.users
    /\ cleanupInProgress' = st.cip
    /\ joined' = st.chan
    /\ out' = st.emits
    /\ lastEvent' = ev

\* The server variables take the values of a handler's resulting state.
Commit(st, ev) ==
    /\ ServerTakes(st, ev)
    /\ UNCHANGED <<clientVars, bitrateVars, callVars>>

\* io.on('connection'): a new authenticated socket of user u. User ids are opaque
\* tokens: a user connecting for the first time is given the next unused id.
Connection(u) ==
    /\ nextSock <= MaxSockets
    /\ u <= nextUser
    /\ nextUser' = IF u = nextUser THEN nextUser + 1 ELSE nextUser
    /\ LET s == nextSock
           st == [ServerState EXCEPT
                    !.users = Put(@, u, [socketId |-> s, roomId |-> NoRoom])]
       IN /\ sockets' = Put(sockets, s, u)
          /\ nextSock' = nextSock + 1
          /\ Commit(st, Event("connection", s, NoRoom, ""))
    /\ UNCHANGED nextRoom

\* POST /api/call/create-room: a fresh random id, an empty room. The room's
\* createdBy field is never read and is left out.
CreateRoom ==
    /\ nextRoom <= MaxRooms
    /\ LET r == nextRoom
           st == [ServerState EXCEPT
                    !.rooms = Put(@, r, [old |-> FALSE, participants |-> <<>>])]
       IN /\ nextRoom' = nextRoom + 1
          /\ Commit(EmitSelf(st, 0, "http", 0, "201 Room created successfully", <<>>),
                    Event("create-room", 0, r, ""))
    /\ UNCHANGED <<sockets, nextSock, nextUser>>

\* POST /api/call/join-room: the pre-check, which only reads the room table.
JoinRoomCheck(rooms, r) ==
    IF r \notin DOMAIN rooms THEN "404 Room not found or has expired"
    ELSE IF Len(rooms[r].participants) >= 2 THEN "400 Room is full"
    ELSE "200 Room is available"

HttpJoinRoom(r) ==
    /\ Commit(EmitSelf(ServerState, 0, "http", 0, JoinRoomCheck(activeRooms, r), <<>>),
              Event("http-join-room", 0, r, ""))
    /\ UNCHANGED <<sockets, nextSock, nextUser, nextRoom>>

\* socket.on('join-room', {roomId}) on socket s.
AlreadyInRoomMsg ==
    "You are already in this room from another tab. Please use a different browser or incognito window to test with a second user."

\* A capacity check that lets a third participant in.
JoinRoomFullOffByOne(room) == Len(room.participants) > 2

JoinRoomFull(room) == Len(room.participants) >= 2

\* The user leaves the room its record names, if that is another room than r.
LeavePreviousRoom(st, s, u, r) ==
    LET hasInfo == u \in DOMAIN st.users
        prev == IF hasInfo THEN st.users[u].roomId ELSE NoRoom
    IN IF prev # NoRoom /\ prev # r
       THEN HandleUserLeave(st, s, u, prev, "switching rooms")
       ELSE st

\* A join that skips the already-in-room test.
JoinRoomAdmitDuplicates(st, s, u, r) ==
    LET member == [odtId |-> u, socketId |-> s]
        st2 == [st EXCEPT
                  !.chan[r] = @ \cup {s},
                  !.rooms[r].participants = Append(@, member),
                  !.users = Put(@, u, [socketId |-> s, roomId |-> r])]
        st3 == EmitToRoom(st2, s, r, "user-joined", u, "")
        others == SelectSeq(st3.rooms[r].participants, LAMBDA p : p.odtId # u)
    IN EmitSelf(st3, s, "room-users", 0, "", others)

\* The join proper, once the room is known to exist and to have a free place.
JoinRoomAdmit(st, s, u, r) ==
    IF u \in MemberIds(st.rooms[r])
    THEN EmitSelf(st, s, "error", 0, AlreadyInRoomMsg, <<>>)
    ELSE
        LET member == [odtId |-> u, socketId |-> s]
            st2 == [st EXCEPT
                      !.chan[r] = @ \cup {s},
                      !.rooms[r].participants = Append(@, member),
                      !.users = Put(@, u, [socketId |-> s, roomId |-> r])]
            st3 == EmitToRoom(st2, s, r, "user-joined", u, "")
            others == SelectSeq(st3.rooms[r].participants, LAMBDA p : p.odtId # u)
        IN EmitSelf(st3, s, "room-users", 0, "", others)

\* A handler that leaves the previous room before it validates the target room.
JoinRoomLeavingFirst(st, s, u, r) ==
    LET st1 == LeavePreviousRoom(st, s, u, r)
    IN IF r \notin DOMAIN st1.rooms
       THEN EmitSelf(st1, s, "error", 0, "Room does not exist", <<>>)
       ELSE IF JoinRoomFull(st1.rooms[r])
       THEN EmitSelf(st1, s, "error", 0, "Room is full", <<>>)
       ELSE JoinRoomAdmit(st1, s, u, r)

JoinRoomHandler(st, s, u, r) ==
    IF r \notin DOMAIN st.rooms
    THEN EmitSelf(st, s, "error", 0, "Room does not exist", <<>>)
    ELSE IF JoinRoomFull(st.rooms[r])
    THEN EmitSelf(st, s, "error", 0, "Room is full", <<>>)
    ELSE JoinRoomAdmit(LeavePreviousRoom(st, s, u, r), s, u, r)

JoinRoom(s, r) ==
    /\ s \in DOMAIN sockets
    /\ Commit(JoinRoomHandler(ServerState, s, sockets[s], r),
              Event("join-room", s, r, ""))
    /\ UNCHANGED <<sockets, nextSock, nextUser, nextRoom>>

\* socket.on('leave-room', {roomId}) on socket s.
LeaveRoom(s, r) ==
    /\ s \in DOMAIN sockets
    /\ Commit(HandleUserLeave(ServerState, s, sockets[s], r, "user left"),
              Event("leave-room", s, r, ""))
    /\ UNCHANGED <<sockets, nextSock, nextUser, nextRoom>>

\* socket.on('disconnect', reason) on socket s. Socket.IO has taken the socket
\* out of every channel before the handler runs.
DisconnectReason(cause) == "disconnect: " \o cause

\* The room the disconnect handler leaves: the room id of the user's record.
DisconnectRoom(users, u) == IF u \in DOMAIN users THEN users[u].roomId ELSE NoRoom

DisconnectHandler(st, s, u, cause) ==
    LET st0 == [st EXCEPT !.chan = [r \in DOMAIN @ |-> @[r] \ {s}]]
        room == DisconnectRoom(st0.users, u)
        st1 == IF room # NoRoom
               THEN HandleUserLeave(st0, s, u, room, DisconnectReason(cause))
               ELSE st0
    IN [st1 EXCEPT !.users = Remove(@, u)]

Disconnect(s, cause) ==
    /\ s \in DOMAIN sockets
    /\ Commit(DisconnectHandler(ServerState, s, sockets[s], cause),
              Event("disconnect", s, DisconnectRoom(connectedUsers, sockets[s]), cause))
    /\ sockets' = Remove(sockets, s)
    /\ UNCHANGED <<nextSock, nextUser, nextRoom>>

\* socket.on('offer' | 'answer' | 'ice-candidate' | 'toggle-media'): the payload
\* names a room id and may carry claimed sender and addressee fields.
RelayKinds == {"offer", "answer", "ice-candidate", "toggle-media"}

Payloads == {"data"}

\* What a payload may claim as its sender or addressee: nothing, or a user id.
AllClaimedIds == {NoUser} \cup Users

\* The claimed id the relay handlers are driven with: user 1's id, which is a
\* forged id for every other sender.
ClaimedIds == {1}

\* The event name the relayed message goes out under.
RelayedEvent(kind) == IF kind = "toggle-media" THEN "user-toggle-media" ELSE kind

\* A relay that trusts the sender id the payload claims.
RelayFromClaimed(u, claimedFrom) == IF claimedFrom # NoUser THEN claimedFrom ELSE u

\* The sender id stamped on the relayed message: socket.user.id.
RelayFrom(u, claimedFrom) == u

\* The channel the relayed message is broadcast to: the payload's roomId.
RelayRoom(users, u, r) == r

RelayHandler(st, s, u, kind, r, body, claimedFrom, claimedTo) ==
    EmitToRoom(st, s, RelayRoom(st.users, u, r), RelayedEvent(kind),
               RelayFrom(u, claimedFrom), body)

Relay(s, kind, r, body, claimedFrom, claimedTo) ==
    /\ s \in DOMAIN sockets
    /\ Commit(RelayHandler(ServerState, s, sockets[s], kind, r, body,
                           claimedFrom, claimedTo),
              Event(kind, s, r, body))
    /\ UNCHANGED <<sockets, nextSock, nextUser, nextRoom>>

\* Time passes: room r becomes older than the 24 hour threshold.
Age(r) ==
    /\ r \in DOMAIN activeRooms
    /\ ~activeRooms[r].old
    /\ Commit([ServerState EXCEPT !.rooms[r].old = TRUE], Event("clock", 0, r, ""))
    /\ UNCHANGED <<sockets, nextSock, nextUser, nextRoom>>

\* A staleness test that looks at the age only.
IsStaleIgnoringMembers(room) == room.old

\* The setInterval callback: rooms older than 24 hours with no participants go.
IsStale(room) == Len(room.participants) = 0 /\ room.old

SweepRooms(rooms) ==
    [r \in {x \in DOMAIN rooms : ~IsStale(rooms[x])} |-> rooms[r]]

\* The callback logs the removal if cleanedCount > 0.
Sweep ==
    /\ Commit([ServerState EXCEPT !.rooms = SweepRooms(@)],
              Event("sweep", 0, NoRoom,
                    IF SweepRooms(activeRooms) # activeRooms THEN "removed" ELSE ""))
    /\ UNCHANGED <<sockets, nextSock, nextUser, nextRoom>>

\* ------------------------------------------------ client: one call session
\* currentUser.id of the session: the id of user 1.
CurrentUserId == 1

\* The `null` of peerConnectionRef.
NoPc == 0

\* Number of remote candidates that arrive over a run.
MaxCandidates == 3
\* Number of RTCPeerConnection objects created over a run.
MaxPeerConnections == 2
\* Number of async functions suspended at the same time.
MaxTasks == 1

\* The participant lists a room-users event may carry.
ParticipantLists ==
    {<<>>} \cup {<<u>> : u \in Users}
           \cup {<<CurrentUserId, u>> : u \in Users \ {CurrentUserId}}

\* new RTCPeerConnection(ICE_SERVERS)
NewPeerConnection ==
    [closed |-> FALSE, signalingState |-> "stable", remoteDescription |-> "none",
     applied |-> <<>>]

ClientEvent(ev, from) == [ev |-> ev, from |-> from]

\* The session's mutable state as one value, so that handlers can call each other.
ClientState ==
    [role |-> roleRef, remote |-> remoteUser, locked |-> remoteUserLockedRef,
     cleaned |-> cleanupPerformedRef, stream |-> localStreamRef,
     rstream |-> remoteStreamRef, audio |-> isAudioEnabled, video |-> isVideoEnabled,
     pc |-> peerConnectionRef, pcs |-> connections,
     pending |-> pendingIceCandidatesRef, tasks |-> tasks, held |-> heldBack,
     flushes |-> <<>>, emits |-> <<>>]

\* socket.emit(ev, ...)
ClientEmit(cl, ev) == [cl EXCEPT !.emits = Append(@, ev)]

\* An async function suspended at an await: the function, the await it is at, the
\* connection it holds in its local `pc`, the connection and the candidates left
\* of a flush in progress, and whether it has set the remote description.
Task(kind, stage, pc) ==
    [kind |-> kind, stage |-> stage, pc |-> pc, flushPc |-> NoPc, todo |-> <<>>,
     set |-> FALSE]

Suspend(cl, t) == [cl EXCEPT !.tasks = Append(@, t)]

\* useWebRTC.closePeerConnection
ClosePeerConnection(cl) ==
    IF cl.pc = NoPc
    THEN cl
    ELSE [cl EXCEPT !.pcs[cl.pc].closed = TRUE,
                    !.pcs[cl.pc].signalingState = "closed",
                    !.pc = NoPc]

\* A createPeerConnection without the local stream test.
CreatePeerConnectionUnguarded(cl) ==
    LET c1 == ClosePeerConnection(cl)
    IN [c1 EXCEPT !.pending = <<>>,
                  !.pcs = Append(@, NewPeerConnection),
                  !.pc = Len(c1.pcs) + 1]

\* useWebRTC.createPeerConnection: nothing without a local stream; otherwise the
\* current connection is closed, the candidate buffer is emptied and a new
\* connection becomes the current one.
CreatePeerConnection(cl) ==
    IF ~cl.stream
    THEN cl
    ELSE LET c1 == ClosePeerConnection(cl)
         IN [c1 EXCEPT !.pending = <<>>,
                       !.pcs = Append(@, NewPeerConnection),
                       !.pc = Len(c1.pcs) + 1]

\* pc.addIceCandidate: rejected (and the error swallowed by the callers) on a
\* closed connection or one without a remote description. An applied candidate
\* is recorded with whether it came out of the buffer.
AddIceCandidate(cl, pc, c) ==
    IF cl.pcs[pc].closed \/ cl.pcs[pc].remoteDescription = "none"
    THEN cl
    ELSE LET wasHeld == \E i \in 1..Len(cl.held) : cl.held[i] = c
         IN [cl EXCEPT !.pcs[pc].applied = Append(@, [cand |-> c, held |-> wasHeld]),
                       !.held = SelectSeq(@, LAMBDA x : x # c)]

\* useWebRTC.createOffer up to its first await.
CreateOffer(cl) ==
    IF ~cl.stream
    THEN cl
    ELSE LET c1 == IF cl.pc = NoPc THEN CreatePeerConnection(cl) ELSE cl
         IN Suspend(c1, Task("createOffer", "offer", c1.pc))

\* The code after `await flushPendingIceCandidates()`: handleOffer goes on to
\* create the answer, handleAnswer is done. A function that has set the remote
\* description of the connection that is still the current one records the
\* buffered candidates that are still not applied.
AfterFlush(cl, t) ==
    LET c1 == IF t.set /\ cl.pc = t.pc
              THEN [cl EXCEPT !.flushes = Append(@, [pc |-> t.pc, held |-> cl.held])]
              ELSE cl
    IN IF t.kind = "handleOffer"
       THEN Suspend(c1, [t EXCEPT !.stage = "answer"])
       ELSE c1

\* useWebRTC.flushPendingIceCandidates up to its first await, called by task t.
FlushPendingIceCandidates(cl, t) ==
    IF \/ cl.pc = NoPc
       \/ cl.pcs[cl.pc].remoteDescription = "none"
       \/ cl.pending = <<>>
    THEN AfterFlush(cl, t)
    ELSE LET c1 == AddIceCandidate([cl EXCEPT !.pending = <<>>], cl.pc,
                                   Head(cl.pending))
         IN Suspend(c1, [t EXCEPT !.stage = "flush", !.flushPc = cl.pc,
                                  !.todo = Tail(cl.pending)])

\* useWebRTC.handleOffer up to its first await.
HandleOffer(cl) ==
    IF ~cl.stream
    THEN cl
    ELSE LET c1 == IF cl.pc = NoPc THEN CreatePeerConnection(cl) ELSE cl
         IN Suspend(c1, Task("handleOffer", "srd", c1.pc))

\* A connection that takes an answer in any signaling state.
AwaitsAnswerAlways(p) == TRUE

\* The connection has an outstanding local offer: the test handleAnswer makes
\* before it sets the answer, and the state in which the browser accepts one.
AwaitsAnswer(p) == p.signalingState = "have-local-offer"

\* A handleAnswer that sets the answer without looking at the signaling state.
HandleAnswerUnguarded(cl) ==
    IF cl.pc = NoPc
    THEN cl
    ELSE Suspend(cl, Task("handleAnswer", "srd", cl.pc))

\* useWebRTC.handleAnswer up to its first await.
HandleAnswer(cl) ==
    IF cl.pc = NoPc
    THEN cl
    ELSE IF AwaitsAnswer(cl.pcs[cl.pc])
    THEN Suspend(cl, Task("handleAnswer", "srd", cl.pc))
    ELSE FlushPendingIceCandidates(cl, Task("handleAnswer", "flush", cl.pc))

\* useWebRTC.handleIceCandidate: buffered without a connection or without a
\* remote description, applied otherwise.
HandleIceCandidate(cl, c) ==
    IF cl.pc = NoPc \/ cl.pcs[cl.pc].remoteDescription = "none"
    THEN [cl EXCEPT !.pending = Append(@, c), !.held = Append(@, c)]
    ELSE AddIceCandidate(cl, cl.pc, c)

\* useWebRTC.initializeMedia once getUserMedia is fulfilled: a new stream, its
\* tracks enabled.
MediaInitialized(cl) == [cl EXCEPT !.stream = TRUE, !.audio = TRUE, !.video = TRUE]

\* useWebRTC.cleanup
Cleanup(cl) ==
    LET c1 == ClosePeerConnection([cl EXCEPT !.stream = FALSE, !.rstream = FALSE])
    IN [c1 EXCEPT !.pending = <<>>, !.held = <<>>, !.audio = TRUE, !.video = TRUE]

\* A peer-disconnect handling that keeps the remote stream.
HandlePeerDisconnectKeepingStream(cl) == cl

\* useWebRTC.handlePeerDisconnect
HandlePeerDisconnect(cl) == [cl EXCEPT !.rstream = FALSE]

\* CallRoom.performCleanup
PerformCleanup(cl) ==
    IF cl.cleaned
    THEN cl
    ELSE Cleanup(ClientEmit([cl EXCEPT !.cleaned = TRUE], "leave-room"))

\* A lock test that lets a locked identity be overwritten.
SafeSetAppliesIgnoringLock(cl, odtId) == odtId # CurrentUserId

\* An identity test that accepts the session's own id.
SafeSetAppliesToOwnId(cl, odtId) == ~cl.locked

\* CallRoom.safeSetRemoteUser: whether the update is applied (its return value).
SafeSetApplies(cl, odtId) == odtId # CurrentUserId /\ ~cl.locked

SafeSetRemoteUser(cl, odtId, canLock) ==
    IF SafeSetApplies(cl, odtId)
    THEN [cl EXCEPT !.remote = odtId, !.locked = canLock \/ @]
    ELSE cl

\* CallRoom.handleUserJoined up to its first await.
HandleUserJoined(cl, odtId) ==
    LET c1 == [cl EXCEPT !.role = "caller"]
    IN IF SafeSetApplies(c1, odtId)
       THEN CreateOffer(CreatePeerConnection(SafeSetRemoteUser(c1, odtId, TRUE)))
       ELSE c1

\* CallRoom.handleReceiveOffer up to its first await.
HandleReceiveOffer(cl, from) ==
    HandleOffer(IF ~cl.locked THEN SafeSetRemoteUser(cl, from, TRUE) ELSE cl)

\* A handleReceiveAnswer without the identity fallback.
HandleReceiveAnswerWithoutFallback(cl, from) == HandleAnswer(cl)

\* CallRoom.handleReceiveAnswer up to its first await.
HandleReceiveAnswer(cl, from) ==
    HandleAnswer(IF ~cl.locked THEN SafeSetRemoteUser(cl, from, TRUE) ELSE cl)

\* CallRoom.handleUserLeft
HandleUserLeft(cl) ==
    HandlePeerDisconnect([cl EXCEPT !.remote = NoUser, !.locked = FALSE, !.role = "none"])

\* A joiner that sends an offer of its own when it learns who is in the room.
HandleRoomUsersOffering(cl, participants) ==
    LET others == SelectSeq(participants, LAMBDA p : p # CurrentUserId)
    IN IF Len(others) > 0
       THEN CreateOffer(CreatePeerConnection(
                SafeSetRemoteUser([cl EXCEPT !.role = "joiner"], others[1], TRUE)))
       ELSE cl

\* CallRoom.handleRoomUsers
HandleRoomUsers(cl, participants) ==
    LET others == SelectSeq(participants, LAMBDA p : p # CurrentUserId)
    IN IF Len(others) > 0
       THEN CreatePeerConnection(
                SafeSetRemoteUser([cl EXCEPT !.role = "joiner"], others[1], TRUE))
       ELSE cl

\* The states in which the browser accepts a description.
AcceptsLocalOffer == {"stable", "have-local-offer"}

AcceptsRemoteOffer == {"stable", "have-remote-offer"}

\* A suspended function resumes: its await settles (ok: fulfilled) and it runs to
\* its next await or to its end.
ResumeTask(cl, t, ok) ==
    LET p == cl.pcs[t.pc]
    IN IF t.stage = "offer"
       THEN \* createOffer: the offer is the local description; the caller emits it
            IF ok /\ p.signalingState \in AcceptsLocalOffer
            THEN ClientEmit([cl EXCEPT !.pcs[t.pc].signalingState = "have-local-offer"],
                            "offer")
            ELSE cl
       ELSE IF t.stage = "srd" /\ t.kind = "handleOffer"
       THEN IF ok /\ p.signalingState \in AcceptsRemoteOffer
            THEN FlushPendingIceCandidates(
                     [cl EXCEPT !.pcs[t.pc].remoteDescription = "offer",
                                !.pcs[t.pc].signalingState = "have-remote-offer"],
                     [t EXCEPT !.set = TRUE])
            ELSE cl
       ELSE IF t.stage = "srd"
       THEN IF ok /\ AwaitsAnswer(p)
            THEN FlushPendingIceCandidates(
                     [cl EXCEPT !.pcs[t.pc].remoteDescription = "answer",
                                !.pcs[t.pc].signalingState = "stable"],
                     [t EXCEPT !.set = TRUE])
            ELSE cl
       ELSE IF t.stage = "flush"
       THEN IF t.todo = <<>>
            THEN AfterFlush(cl, t)
            ELSE Suspend(AddIceCandidate(cl, t.flushPc, Head(t.todo)),
                         [t EXCEPT !.todo = Tail(@)])
       ELSE \* handleOffer: the answer is the local description; the callee emits it
            IF ok /\ p.signalingState = "have-remote-offer"
            THEN ClientEmit([cl EXCEPT !.pcs[t.pc].signalingState = "stable"],
                            "answer")
            ELSE cl

\* The client variables take the values of a handler's resulting state.
CommitClient(cl, ev) ==
    /\ Len(cl.pcs) <= MaxPeerConnections
    /\ Len(cl.tasks) <= MaxTasks
    /\ roleRef' = cl.role
    /\ remoteUser' = cl.remote
    /\ remoteUserLockedRef' = cl.locked
    /\ cleanupPerformedRef' = cl.cleaned
    /\ localStreamRef' = cl.stream
    /\ remoteStreamRef' = cl.rstream
    /\ isAudioEnabled' = cl.audio
    /\ isVideoEnabled' = cl.video
    /\ peerConnectionRef' = cl.pc
    /\ connections' = cl.pcs
    /\ pendingIceCandidatesRef' = cl.pending
    /\ tasks' = cl.tasks
    /\ heldBack' = cl.held
    /\ flushed' = cl.flushes
    /\ emitted' = cl.emits
    /\ lastClientEvent' = ev
    /\ UNCHANGED <<serverVars, bitrateVars, callVars>>

\* The call setup effect runs with the socket connected (on mount, and again when
\* the socket reconnects or the room changes: the previous run's cleanup comes
\* first): setupCall up to its await.
SetupCall ==
    /\ ~mediaPending
    /\ LET c0 == IF effectRan THEN PerformCleanup(ClientState) ELSE ClientState
       IN CommitClient([c0 EXCEPT !.cleaned = FALSE, !.role = "none", !.locked = FALSE],
                       ClientEvent("setup", NoUser))
    /\ effectRan' = TRUE
    /\ mediaPending' = TRUE
    /\ UNCHANGED nextCandidate

\* The socket goes down (isConnected becomes false): the effect re-runs, its
\* previous run's cleanup is performCleanup, and setupCall returns at once. The
\* listeners stay registered; a socket that is down delivers no event.
SocketDown ==
    /\ effectRan
    /\ ~cleanupPerformedRef
    /\ CommitClient(PerformCleanup(ClientState), ClientEvent("socket-down", NoUser))
    /\ UNCHANGED <<effectRan, mediaPending, nextCandidate>>

\* initializeMedia settles: with a stream the session emits join-room.
MediaReady(ok) ==
    /\ mediaPending
    /\ CommitClient(IF ok
                    THEN ClientEmit(MediaInitialized(ClientState), "join-room")
                    ELSE ClientState,
                    ClientEvent("media", NoUser))
    /\ mediaPending' = FALSE
    /\ UNCHANGED <<effectRan, nextCandidate>>

UserJoined(u) ==
    /\ effectRan
    /\ ~cleanupPerformedRef
    /\ CommitClient(HandleUserJoined(ClientState, u), ClientEvent("user-joined", u))
    /\ UNCHANGED <<effectRan, mediaPending, nextCandidate>>

ReceiveOffer(u) ==
    /\ effectRan
    /\ ~cleanupPerformedRef
    /\ CommitClient(HandleReceiveOffer(ClientState, u), ClientEvent("offer", u))
    /\ UNCHANGED <<effectRan, mediaPending, nextCandidate>>

ReceiveAnswer(u) ==
    /\ effectRan
    /\ ~cleanupPerformedRef
    /\ CommitClient(HandleReceiveAnswer(ClientState, u), ClientEvent("answer", u))
    /\ UNCHANGED <<effectRan, mediaPending, nextCandidate>>

\* CallRoom.handleReceiveIceCandidate for a candidate that is not null.
ReceiveIceCandidate ==
    /\ effectRan
    /\ ~cleanupPerformedRef
    /\ nextCandidate <= MaxCandidates
    /\ CommitClient(HandleIceCandidate(ClientState, nextCandidate),
                    ClientEvent("ice-candidate", NoUser))
    /\ nextCandidate' = nextCandidate + 1
    /\ UNCHANGED <<effectRan, mediaPending>>

UserLeft ==
    /\ effectRan
    /\ ~cleanupPerformedRef
    /\ CommitClient(HandleUserLeft(ClientState), ClientEvent("user-left", NoUser))
    /\ UNCHANGED <<effectRan, mediaPending, nextCandidate>>

RoomUsers(list) ==
    /\ effectRan
    /\ ~cleanupPerformedRef
    /\ CommitClient(HandleRoomUsers(ClientState, list), ClientEvent("room-users", NoUser))
    /\ UNCHANGED <<effectRan, mediaPending, nextCandidate>>

Resume(i, ok) ==
    /\ i \in 1..Len(tasks)
    /\ LET rest == [ClientState EXCEPT
                      !.tasks = SubSeq(tasks, 1, i - 1) \o SubSeq(tasks, i + 1, Len(tasks))]
       IN CommitClient(ResumeTask(rest, tasks[i], ok), ClientEvent("resume", NoUser))
    /\ UNCHANGED <<effectRan, mediaPending, nextCandidate>>

\* pc.ontrack on the current connection: the remote peer's stream arrives, which
\* it does only on a connection that has a remote description.
OnTrack ==
    /\ peerConnectionRef # NoPc
    /\ connections[peerConnectionRef].remoteDescription # "none"
    /\ CommitClient([ClientState EXCEPT !.rstream = TRUE], ClientEvent("track", NoUser))
    /\ UNCHANGED <<effectRan, mediaPending, nextCandidate>>

\* CallRoom.handleToggleAudio / handleToggleVideo: useWebRTC.toggleAudio or
\* toggleVideo flips the track of the local stream, if there is one, and the
\* session emits toggle-media.
ToggleMedia(kind) ==
    /\ effectRan
    /\ LET c1 == IF ~localStreamRef THEN ClientState
                 ELSE IF kind = "audio" THEN [ClientState EXCEPT !.audio = ~@]
                 ELSE [ClientState EXCEPT !.video = ~@]
       IN CommitClient(ClientEmit(c1, "toggle-media"), ClientEvent("toggle-" \o kind, NoUser))
    /\ UNCHANGED <<effectRan, mediaPending, nextCandidate>>

\* ------------------------------------------- adaptive bitrate controller
\* Number of peer connections the controller sees over a run.
MaxMediaPaths == 2
\* Number of controller functions suspended at the same time.
MaxBitrateTasks == 2

\* Bitrate targets in bits per second.
BITRATE_CONFIG ==
    [START |-> 3500000, MAX_GOOD |-> 5000000, MEDIUM |-> 2000000, POOR |-> 800000,
     TURN_CAP |-> 1500000]

\* Round-trip times in ms; packet loss in hundredths (0.02 is 2).
NETWORK_THRESHOLDS ==
    [GOOD_RTT |-> 100, MEDIUM_RTT |-> 250, GOOD_PACKET_LOSS |-> 2,
     MEDIUM_PACKET_LOSS |-> 5]

\* An encoding parameter that is not set.
Unset == 0

\* The frame rate cap of the poor tier.
PoorFramerate == 15

\* What a statistics sample can report: the round-trip time of the succeeded
\* candidate pair in ms, and the video packets lost and sent.
Samples ==
    [rtt : {99, 100, 101, 250, 251}, packetsLost : {0}, packetsSent : {0}]
        \cup [rtt : {99}, packetsLost : {1, 2, 3, 5, 6}, packetsSent : {100}]

\* The sample handed to a resumption that reads no statistics.
NoStats == [rtt |-> 100, packetsLost |-> 0, packetsSent |-> 0]

\* The ICE connection states; the controller starts on the last two.
IceStates == {"disconnected", "connected", "completed"}

Established == {"connected", "completed"}

Abs(x) == IF x < 0 THEN -x ELSE x

\* The controller's mutable state as one value.
BitrateState ==
    [interval |-> bitrateIntervalRef, timers |-> bitrateTimers, turn |-> isUsingTurnRef,
     current |-> currentBitrateRef, paths |-> mediaPaths, tasks |-> bitrateTasks]

BitrateEvent(ev, pc) == [ev |-> ev, pc |-> pc]

BitrateTask(kind, pc, target) == [kind |-> kind, pc |-> pc, target |-> target]

\* new RTCPeerConnection: whether its path will be relayed and whether it has a
\* video sender are facts of the environment.
NewMediaPath(relay, video) ==
    [closed |-> FALSE, relay |-> relay, video |-> video, ice |-> "new",
     maxBitrate |-> Unset, maxFramerate |-> Unset]

\* The current connection: the last one created, unless it has been closed.
CurrentPath(bs) ==
    IF Len(bs.paths) > 0 /\ ~bs.paths[Len(bs.paths)].closed THEN Len(bs.paths) ELSE NoPc

\* clearInterval(bitrateIntervalRef.current), if the ref holds a timer: that
\* timer is gone, any other one stays.
ClearInterval(bs) ==
    LET at == {k \in DOMAIN bs.timers : bs.timers[k] = bs.interval}
        k == CHOOSE j \in at : \A other \in at : j >= other
    IN IF bs.interval = NoPc \/ at = {}
       THEN bs
       ELSE [bs EXCEPT !.timers = SubSeq(@, 1, k - 1) \o SubSeq(@, k + 1, Len(@))]

\* useWebRTC.closePeerConnection, as far as the controller is concerned.
StopControllerOnClose(bs) ==
    LET pc == CurrentPath(bs)
        b1 == [ClearInterval(bs) EXCEPT !.interval = NoPc, !.turn = FALSE]
    IN IF pc = NoPc THEN b1 ELSE [b1 EXCEPT !.paths[pc].closed = TRUE]

\* useWebRTC.cleanup, as far as the controller is concerned.
StopControllerOnCleanup(bs) ==
    [StopControllerOnClose(bs) EXCEPT !.current = BITRATE_CONFIG.START]

\* useWebRTC.detectTurnUsage up to its await of getStats.
DetectTurnUsage(bs, pc) ==
    [bs EXCEPT !.tasks = Append(@, BitrateTask("detectTurnUsage", pc, Unset))]

\* useWebRTC.applyBitrate up to its await of setParameters: nothing without a
\* video sender; on a closed connection setParameters is rejected at once and
\* the rejection is caught.
ApplyBitrate(bs, pc, targetBitrate) ==
    IF ~bs.paths[pc].video \/ bs.paths[pc].closed
    THEN bs
    ELSE [bs EXCEPT !.tasks = Append(@, BitrateTask("applyBitrate", pc, targetBitrate))]

\* startAdaptiveBitrate without lines 322-325: the running timer is not cleared.
StartAdaptiveBitrateKeepingTimer(bs, pc) ==
    [ApplyBitrate(bs, pc, BITRATE_CONFIG.START) EXCEPT
        !.timers = Append(@, pc), !.interval = pc]

\* useWebRTC.startAdaptiveBitrate: the running timer is replaced and the start
\* bitrate is applied.
StartAdaptiveBitrate(bs, pc) ==
    LET b1 == ApplyBitrate(ClearInterval(bs), pc, BITRATE_CONFIG.START)
    IN [b1 EXCEPT !.timers = Append(@, pc), !.interval = pc]

\* useWebRTC.analyzeNetworkQuality: the loss rate stays a fraction.
AnalyzeNetworkQuality(stats) ==
    [rtt |-> stats.rtt,
     packetsLost |-> IF stats.packetsSent > 0 THEN stats.packetsLost ELSE 0,
     packetsSent |-> IF stats.packetsSent > 0 THEN stats.packetsSent ELSE 1]

\* packetLossRate > threshold, the threshold in hundredths.
LossAbove(q, hundredths) == q.packetsLost * 100 > hundredths * q.packetsSent

Quality(q) ==
    IF \/ q.rtt > NETWORK_THRESHOLDS.MEDIUM_RTT
       \/ LossAbove(q, NETWORK_THRESHOLDS.MEDIUM_PACKET_LOSS)
    THEN "poor"
    ELSE IF \/ q.rtt > NETWORK_THRESHOLDS.GOOD_RTT
            \/ LossAbove(q, NETWORK_THRESHOLDS.GOOD_PACKET_LOSS)
    THEN "medium"
    ELSE "good"

\* calculateTargetBitrate without the relay cap of lines 396-399.
CalculateTargetBitrateUncapped(q, usingTurn) ==
    IF Quality(q) = "good" THEN BITRATE_CONFIG.MAX_GOOD
    ELSE IF Quality(q) = "medium" THEN BITRATE_CONFIG.MEDIUM
    ELSE BITRATE_CONFIG.POOR

\* useWebRTC.calculateTargetBitrate
CalculateTargetBitrate(q, usingTurn) ==
    LET tier == IF Quality(q) = "good" THEN BITRATE_CONFIG.MAX_GOOD
                ELSE IF Quality(q) = "medium" THEN BITRATE_CONFIG.MEDIUM
                ELSE BITRATE_CONFIG.POOR
    IN IF usingTurn /\ tier > BITRATE_CONFIG.TURN_CAP
       THEN BITRATE_CONFIG.TURN_CAP
       ELSE tier

\* Math.abs(target - current) / current > 0.1
ChangedSignificantly(targetBitrate, current) ==
    10 * Abs(targetBitrate - current) > current

\* The timer callback after its await of getStats.
AdjustBitrate(bs, pc, stats) ==
    LET targetBitrate == CalculateTargetBitrate(AnalyzeNetworkQuality(stats), bs.turn)
    IN IF ChangedSignificantly(targetBitrate, bs.current)
       THEN ApplyBitrate(bs, pc, targetBitrate)
       ELSE bs

\* setParameters is fulfilled: the sender has the new parameters and the value
\* is recorded as current.
ParametersSet(bs, pc, targetBitrate) ==
    [bs EXCEPT !.paths[pc].maxBitrate = targetBitrate,
               !.paths[pc].maxFramerate =
                   IF targetBitrate <= BITRATE_CONFIG.POOR THEN PoorFramerate ELSE Unset,
               !.current = targetBitrate]

\* A suspended controller function resumes: its await settles (ok: fulfilled).
\* A rejection is caught and ignored by all three. A setParameters or getStats
\* that was in progress when the connection was closed may still be fulfilled.
ResumeBitrateTask(bs, t, ok, stats) ==
    IF ~ok
    THEN bs
    ELSE IF t.kind = "detectTurnUsage"
    THEN IF bs.paths[t.pc].relay THEN [bs EXCEPT !.turn = TRUE] ELSE bs
    ELSE IF t.kind = "interval"
    THEN AdjustBitrate(bs, t.pc, stats)
    ELSE ParametersSet(bs, t.pc, t.target)

\* What the resumption of task t did, for the record of the last step: it set
\* the sender's parameters of connection t.pc, or something else.
ResumeOutcome(t, ok, bs) ==
    IF t.kind = "applyBitrate" /\ ok
    THEN BitrateEvent("applied", t.pc)
    ELSE BitrateEvent("step", NoPc)

\* The controller variables take the values of a step's resulting state.
CommitBitrate(bs, ev) ==
    /\ Len(bs.paths) <= MaxMediaPaths
    /\ Len(bs.tasks) <= MaxBitrateTasks
    /\ Len(bs.timers) <= MaxMediaPaths
    /\ bitrateIntervalRef' = bs.interval
    /\ bitrateTimers' = bs.timers
    /\ isUsingTurnRef' = bs.turn
    /\ currentBitrateRef' = bs.current
    /\ mediaPaths' = bs.paths
    /\ bitrateTasks' = bs.tasks
    /\ lastBitrateEvent' = ev
    /\ UNCHANGED <<serverVars, clientVars, callVars>>

\* createPeerConnection: the current connection is closed, a new one is current.
PeerConnectionCreated(relay, video) ==
    /\ Len(mediaPaths) < MaxMediaPaths
    /\ CommitBitrate([StopControllerOnClose(BitrateState) EXCEPT
                         !.paths = Append(@, NewMediaPath(relay, video))],
                     BitrateEvent("step", NoPc))

\* pc.oniceconnectionstatechange on the current connection.
IceConnectionStateChange(state) ==
    LET pc == CurrentPath(BitrateState)
        b1 == [BitrateState EXCEPT !.paths[pc].ice = state]
    IN /\ pc # NoPc
       /\ mediaPaths[pc].ice # state
       /\ CommitBitrate(IF state \in Established
                        THEN StartAdaptiveBitrate(DetectTurnUsage(b1, pc), pc)
                        ELSE b1,
                        BitrateEvent("step", NoPc))

\* The 3-second timer fires: the callback runs up to its await of getStats.
IntervalFires ==
    \E k \in DOMAIN bitrateTimers :
        CommitBitrate([BitrateState EXCEPT
                          !.tasks = Append(@, BitrateTask("interval", bitrateTimers[k],
                                                          Unset))],
                      BitrateEvent("step", NoPc))

ResumeBitrate(i, ok, stats) ==
    /\ i \in 1..Len(bitrateTasks)
    /\ (bitrateTasks[i].kind # "interval" \/ ~ok) => stats = NoStats
    /\ LET rest == [BitrateState EXCEPT
                      !.tasks = SubSeq(bitrateTasks, 1, i - 1)
                                    \o SubSeq(bitrateTasks, i + 1, Len(bitrateTasks))]
           t == bitrateTasks[i]
       IN CommitBitrate(ResumeBitrateTask(rest, t, ok, stats),
                        ResumeOutcome(t, ok, rest))

\* closePeerConnection is called (peer left, call ended).
PeerConnectionClosed ==
    /\ CurrentPath(BitrateState) # NoPc
    /\ CommitBitrate(StopControllerOnClose(BitrateState), BitrateEvent("step", NoPc))

\* cleanup is called (the call page is left).
ControllerCleanup ==
    LET b1 == StopControllerOnCleanup(BitrateState)
    IN CommitBitrate(b1, BitrateEvent("step", NoPc))

\* --------------------------------------- two sessions and the server: a call
\* The two participants of the call: A is user 1, B is user 2.
Parties == {1, 2}

\* The room of the call: the first room id the server hands out.
CallRoomId == 1

\* The session handlers above are written for the session of user CurrentUserId.
\* Another user's session runs the same code with the two ids exchanged.
AsSeenBy(me, u) == IF u = me THEN CurrentUserId ELSE IF u = CurrentUserId THEN me ELSE u

\* A session before its call page has set anything up.
NewSession ==
    [role |-> "none", remote |-> NoUser, locked |-> FALSE, cleaned |-> FALSE,
     stream |-> FALSE, rstream |-> FALSE, audio |-> TRUE, video |-> TRUE,
     pc |-> NoPc, pcs |-> <<>>, pending |-> <<>>, tasks |-> <<>>,
     held |-> <<>>, flushes |-> <<>>, emits |-> <<>>]

\* The socket of a connected party.
SocketOf(p) == CHOOSE s \in DOMAIN sockets : sockets[s] = p

IsConnected(p) == \E s \in DOMAIN sockets : sockets[s] = p

\* Number of ICE candidates a party's connection gathers.
MaxLocalCandidates == 2

\* The ICE candidates a party's connection gathers, in order. On the socket an
\* ice-candidate event is written as the candidate it carries.
CandidatePool(p) ==
    IF p = 1 THEN <<"A1", "A2", "A3", "A4">> ELSE <<"B1", "B2", "B3", "B4">>

LocalCandidates(p) == SubSeq(CandidatePool(p), 1, MaxLocalCandidates)

AllCandidates == {LocalCandidates(p)[k] : p \in Parties, k \in 1..MaxLocalCandidates}

\* The messages of a handler's output that go to party p's socket, in order.
MessagesFor(emits, socks, p) ==
    SelectSeq(emits, LAMBDA m : m.to \in DOMAIN socks /\ socks[m.to] = p)

\* A session step ends: what it emitted goes on the party's socket.
PartyTakes(p, cl) ==
    /\ session' = [session EXCEPT ![p] = [cl EXCEPT !.emits = <<>>, !.flushes = <<>>]]
    /\ uplink' = [uplink EXCEPT ![p] = @ \o cl.emits]
    /\ sent' = [sent EXCEPT ![p] = @ \o cl.emits]

\* The party's socket connects (io.on('connection')). B arrives once A is alone
\* in the room of the call.
PartyConnects(p) ==
    /\ ~IsConnected(p)
    /\ sessionStage[p] = "closed"
    /\ p = nextUser
    /\ p # 1 => /\ CallRoomId \in DOMAIN activeRooms
                /\ MemberIds(activeRooms[CallRoomId]) = {1}
    /\ ServerTakes([ServerState EXCEPT
                       !.users = Put(@, p, [socketId |-> nextSock, roomId |-> NoRoom])],
                   Event("connection", nextSock, NoRoom, ""))
    /\ sockets' = Put(sockets, nextSock, p)
    /\ nextSock' = nextSock + 1
    /\ nextUser' = nextUser + 1
    /\ sessionStage' = [sessionStage EXCEPT ![p] = "open"]
    /\ UNCHANGED <<nextRoom, clientVars, bitrateVars, session, uplink, downlink,
                   connectionState, sent>>

\* A creates the room of the call (POST /api/call/create-room).
PartyCreatesRoom ==
    /\ IsConnected(1)
    /\ nextRoom = CallRoomId
    /\ ServerTakes(EmitSelf([ServerState EXCEPT
                                !.rooms = Put(@, CallRoomId,
                                              [old |-> FALSE, participants |-> <<>>])],
                            0, "http", 0, "201 Room created successfully", <<>>),
                   Event("create-room", 0, CallRoomId, ""))
    /\ nextRoom' = nextRoom + 1
    /\ UNCHANGED <<sockets, nextSock, nextUser, clientVars, bitrateVars, callVars>>

\* The party's call page mounts: setupCall up to its await of initializeMedia.
PartySetupCall(p) ==
    /\ sessionStage[p] = "open"
    /\ CallRoomId \in DOMAIN activeRooms
    /\ PartyTakes(p, [session[p] EXCEPT !.cleaned = FALSE, !.role = "none",
                                        !.locked = FALSE])
    /\ sessionStage' = [sessionStage EXCEPT ![p] = "media"]
    /\ UNCHANGED <<serverVars, clientVars, bitrateVars, downlink, connectionState>>

\* initializeMedia settles: with a stream the session emits join-room.
PartyMediaReady(p, ok) ==
    /\ sessionStage[p] = "media"
    /\ PartyTakes(p, IF ok
                     THEN ClientEmit(MediaInitialized(session[p]), "join-room")
                     ELSE session[p])
    /\ sessionStage' = [sessionStage EXCEPT ![p] = "ready"]
    /\ UNCHANGED <<serverVars, clientVars, bitrateVars, downlink, connectionState>>

\* The server's handler for the event at the head of a party's uplink. The
\* sessions name the room of the call and claim no sender or addressee.
ServerHandler(st, s, u, ev) ==
    IF ev = "join-room"
    THEN JoinRoomHandler(st, s, u, CallRoomId)
    ELSE IF ev = "leave-room"
    THEN HandleUserLeave(st, s, u, CallRoomId, "user left")
    ELSE IF ev \in AllCandidates
    THEN RelayHandler(st, s, u, "ice-candidate", CallRoomId, ev, NoUser, NoUser)
    ELSE RelayHandler(st, s, u, ev, CallRoomId, ev, NoUser, NoUser)

\* The server handles the next event of party p's socket; what the handler
\* emits goes on the receiving sockets.
ServerReceives(p) ==
    /\ uplink[p] # <<>>
    /\ LET ev == Head(uplink[p])
           st == ServerHandler(ServerState, SocketOf(p), p, ev)
       IN /\ ServerTakes(st, Event(ev, SocketOf(p), CallRoomId, ""))
          /\ downlink' = [q \in Parties |->
                              downlink[q] \o MessagesFor(st.emits, sockets, q)]
    /\ uplink' = [uplink EXCEPT ![p] = Tail(@)]
    /\ UNCHANGED <<sockets, nextSock, nextUser, nextRoom, clientVars, bitrateVars,
                   session, sessionStage, connectionState, sent>>

\* The session's handler for a server message.
PartyHandler(p, cl, m) ==
    IF m.ev = "user-joined"
    THEN HandleUserJoined(cl, AsSeenBy(p, m.from))
    ELSE IF m.ev = "room-users"
    THEN HandleRoomUsers(cl, [i \in 1..Len(m.list) |-> AsSeenBy(p, m.list[i].odtId)])
    ELSE IF m.ev = "offer"
    THEN HandleReceiveOffer(cl, AsSeenBy(p, m.from))
    ELSE IF m.ev = "answer"
    THEN HandleReceiveAnswer(cl, AsSeenBy(p, m.from))
    ELSE IF m.ev = "ice-candidate"
    THEN HandleIceCandidate(cl, m.text)
    ELSE IF m.ev = "user-left"
    THEN HandleUserLeft(cl)
    ELSE cl

\* Party p's session handles the next message of its socket.
PartyReceives(p) ==
    /\ downlink[p] # <<>>
    /\ sessionStage[p] = "ready"
    /\ PartyTakes(p, PartyHandler(p, session[p], Head(downlink[p])))
    /\ downlink' = [downlink EXCEPT ![p] = Tail(@)]
    /\ UNCHANGED <<serverVars, clientVars, bitrateVars, sessionStage, connectionState>>

\* An await of party p's session is fulfilled and the function runs on.
PartyResumes(p, i) ==
    /\ i \in 1..Len(session[p].tasks)
    /\ LET ts == session[p].tasks
           rest == [session[p] EXCEPT
                      !.tasks = SubSeq(ts, 1, i - 1) \o SubSeq(ts, i + 1, Len(ts))]
       IN PartyTakes(p, ResumeTask(rest, ts[i], TRUE))
    /\ UNCHANGED <<serverVars, clientVars, bitrateVars, sessionStage, downlink,
                   connectionState>>

\* The party has a local description: it has emitted its offer or its answer.
HasLocalDescription(p) ==
    \E k \in 1..Len(sent[p]) : sent[p][k] \in {"offer", "answer"}

\* The candidates the party has emitted so far.
Gathered(p) == SelectSeq(sent[p], LAMBDA ev : ev \in AllCandidates)

\* pc.onicecandidate: the connection has gathered its next candidate and the
\* session emits it.
PartyIceCandidate(p) ==
    /\ HasLocalDescription(p)
    /\ Len(Gathered(p)) < MaxLocalCandidates
    /\ PartyTakes(p, ClientEmit(session[p], LocalCandidates(p)[Len(Gathered(p)) + 1]))
    /\ UNCHANGED <<serverVars, clientVars, bitrateVars, sessionStage, downlink,
                   connectionState>>

\* The party's current connection has both descriptions and has been given the
\* other party's candidates.
Negotiated(p) ==
    LET cl == session[p]
    IN /\ cl.pc # NoPc
       /\ cl.pcs[cl.pc].signalingState = "stable"
       /\ cl.pcs[cl.pc].remoteDescription # "none"
       /\ Len(cl.pcs[cl.pc].applied) = MaxLocalCandidates

\* The media path completes: pc.onconnectionstatechange reports 'connected' on
\* both sides.
MediaPathCompletes ==
    /\ \A p \in Parties : Negotiated(p)
    /\ \E p \in Parties : connectionState[p] # "connected"
    /\ connectionState' = [p \in Parties |-> "connected"]
    /\ UNCHANGED <<serverVars, clientVars, bitrateVars, session, sessionStage, uplink,
                   downlink, sent>>

\* ----------------------------------------------------------- specification
ServerInit ==
    /\ activeRooms = <<>>
    /\ connectedUsers = <<>>
    /\ cleanupInProgress = {}
    /\ sockets = <<>>
    /\ joined = [r \in RoomIds |-> {}]
    /\ nextSock = 1
    /\ nextUser = 1
    /\ nextRoom = 1
    /\ out = <<>>
    /\ lastEvent = Event("init", 0, NoRoom, "")

ClientInit ==
    /\ roleRef = "none"
    /\ remoteUser = NoUser
    /\ remoteUserLockedRef = FALSE
    /\ cleanupPerformedRef = FALSE
    /\ effectRan = FALSE
    /\ mediaPending = FALSE
    /\ localStreamRef = FALSE
    /\ remoteStreamRef = FALSE
    /\ isAudioEnabled = TRUE
    /\ isVideoEnabled = TRUE
    /\ peerConnectionRef = NoPc
    /\ connections = <<>>
    /\ pendingIceCandidatesRef = <<>>
    /\ tasks = <<>>
    /\ nextCandidate = 1
    /\ heldBack = <<>>
    /\ flushed = <<>>
    /\ emitted = <<>>
    /\ lastClientEvent = ClientEvent("init", NoUser)

BitrateInit ==
    /\ bitrateIntervalRef = NoPc
    /\ bitrateTimers = <<>>
    /\ isUsingTurnRef = FALSE
    /\ currentBitrateRef = BITRATE_CONFIG.START
    /\ mediaPaths = <<>>
    /\ bitrateTasks = <<>>
    /\ lastBitrateEvent = BitrateEvent("step", NoPc)

CallInit ==
    /\ session = [p \in Parties |-> NewSession]
    /\ sessionStage = [p \in Parties |-> "closed"]
    /\ uplink = [p \in Parties |-> <<>>]
    /\ downlink = [p \in Parties |-> <<>>]
    /\ connectionState = [p \in Parties |-> "new"]
    /\ sent = [p \in Parties |-> <<>>]

Init == ServerInit /\ ClientInit /\ BitrateInit /\ CallInit

\* The real-time membership handlers and room creation.
MembershipNext ==
    \/ \E u \in Users : Connection(u)
    \/ CreateRoom
    \/ \E s \in SocketIds, r \in RoomIds : JoinRoom(s, r)
    \/ \E s \in SocketIds, r \in RoomIds : LeaveRoom(s, r)
    \/ \E s \in SocketIds, c \in DisconnectCauses : Disconnect(s, c)

Next ==
    \/ MembershipNext
    \/ \E r \in RoomIds : HttpJoinRoom(r)

\* The membership handlers: none of the four relay handlers changes a registry.
Spec == Init /\ [][Next]_vars

\* The membership handlers and the relay handlers.
RelayNext ==
    \/ MembershipNext
    \/ \E s \in SocketIds, k \in RelayKinds, r \in RoomIds, b \in Payloads,
          c \in ClaimedIds : Relay(s, k, r, b, c, c)

RelaySpec == Init /\ [][RelayNext]_vars

\* The membership handlers, the passing of time and the periodic sweep.
SweepNext ==
    \/ Next
    \/ \E r \in RoomIds : Age(r)
    \/ Sweep

SweepSpec == Init /\ [][SweepNext]_vars

\* One client session, driven by every order of events and of settling awaits.
ClientNext ==
    \/ SetupCall
    \/ \E ok \in BOOLEAN : MediaReady(ok)
    \/ \E u \in Users : UserJoined(u)
    \/ \E u \in Users : ReceiveOffer(u)
    \/ \E u \in Users : ReceiveAnswer(u)
    \/ ReceiveIceCandidate
    \/ UserLeft
    \/ \E list \in ParticipantLists : RoomUsers(list)
    \/ \E i \in 1..MaxTasks, ok \in BOOLEAN : Resume(i, ok)

ClientSpec == Init /\ [][ClientNext]_vars

\* The life cycle of one call page whose offers are never answered: mounting,
\* the socket going down and coming back, and every order of the other events
\* and of settling awaits.
LifecycleNext ==
    \/ SetupCall
    \/ SocketDown
    \/ \E ok \in BOOLEAN : MediaReady(ok)
    \/ \E u \in Users : UserJoined(u)
    \/ \E u \in Users : ReceiveOffer(u)
    \/ ReceiveIceCandidate
    \/ UserLeft
    \/ \E list \in ParticipantLists : RoomUsers(list)
    \/ \E i \in 1..MaxTasks, ok \in BOOLEAN : Resume(i, ok)

LifecycleSpec == Init /\ [][LifecycleNext]_vars

\* The media of one call page that is offered a call: the local stream and its
\* two switches, the remote stream, the peer leaving and the socket going down.
MediaNext ==
    \/ SetupCall
    \/ SocketDown
    \/ \E ok \in BOOLEAN : MediaReady(ok)
    \/ \E u \in Users : ReceiveOffer(u)
    \/ \E i \in 1..MaxTasks, ok \in BOOLEAN : Resume(i, ok)
    \/ OnTrack
    \/ \E kind \in {"audio", "video"} : ToggleMedia(kind)
    \/ UserLeft

MediaSpec == Init /\ [][MediaNext]_vars

\* The bitrate controller, driven by every order of connection events, timer
\* ticks, statistics samples and settling awaits.
BitrateNext ==
    \/ \E relay \in BOOLEAN, video \in BOOLEAN : PeerConnectionCreated(relay, video)
    \/ \E state \in IceStates : IceConnectionStateChange(state)
    \/ IntervalFires
    \/ \E i \in 1..MaxBitrateTasks, ok \in BOOLEAN, stats \in Samples :
          ResumeBitrate(i, ok, stats)
    \/ PeerConnectionClosed
    \/ ControllerCleanup

BitrateSpec == Init /\ [][BitrateNext]_vars

\* A call between A and B: A creates the room and joins it, then B joins.
CallNext ==
    \/ \E p \in Parties : PartyConnects(p)
    \/ PartyCreatesRoom
    \/ \E p \in Parties : PartySetupCall(p)
    \/ \E p \in Parties, ok \in BOOLEAN : PartyMediaReady(p, ok)
    \/ \E p \in Parties : ServerReceives(p)
    \/ \E p \in Parties : PartyReceives(p)
    \/ \E p \in Parties, i \in 1..MaxTasks : PartyResumes(p, i)
    \/ \E p \in Parties : PartyIceCandidate(p)
    \/ MediaPathCompletes

\* Messages in flight are delivered and handled, pending awaits settle, gathered
\* candidates are emitted and a negotiated media path completes.
CallFairness ==
    /\ \A p \in Parties : WF_vars(ServerReceives(p))
    /\ \A p \in Parties : WF_vars(PartyReceives(p))
    /\ \A p \in Parties : WF_vars(\E i \in 1..MaxTasks : PartyResumes(p, i))
    /\ \A p \in Parties : WF_vars(PartyIceCandidate(p))
    /\ WF_vars(MediaPathCompletes)

CallSpec == Init /\ [][CallNext]_vars /\ CallFairness

\* ================================================================== claims
\* Helpers for stating the claims.
IsJoinStep(s, r) == lastEvent' = Event("join-room", s, r, "")

IsLeaveRoomStep(s, r) == lastEvent' = Event("leave-room", s, r, "")

IsDisconnectStep(s) == lastEvent'.ev = "disconnect" /\ lastEvent'.sock = s

UserLeftMsgs(msgs) == SelectSeq(msgs, LAMBDA m : m.ev = "user-left")

ErrorTo(s, text) == <<Msg(s, "error", 0, text, <<>>)>>

\* The socket ids stored in a room's participants list.
MemberSockets(room) == {room.participants[i].socketId : i \in 1..Len(room.participants)}

\* C1: in every reachable server state every room of the registry lists at most
\* 2 participants.
C1_AtMostTwoParticipants ==
    \A r \in DOMAIN activeRooms : Len(activeRooms[r].participants) <= 2

\* C1 witness: a third user's join-room was just answered "Room is full" by a room
\* that lists 2 participants.
C1_Witness ==
    /\ lastEvent.ev = "join-room"
    /\ out = ErrorTo(lastEvent.sock, "Room is full")
    /\ lastEvent.room \in DOMAIN activeRooms
    /\ Len(activeRooms[lastEvent.room].participants) = 2
    /\ sockets[lastEvent.sock] \notin MemberIds(activeRooms[lastEvent.room])

\* C2: a join-room for a room id that is not in the registry or for a room that
\* already lists 2 participants changes neither the room table nor any
\* connected-user record, and emits exactly one message, an error to the
\* requesting socket; the HTTP join pre-check never changes the room table.
C2_RejectedJoinChangesNothing ==
    [][/\ \A s \in DOMAIN sockets, r \in RoomIds :
            (/\ IsJoinStep(s, r)
             /\ \/ r \notin DOMAIN activeRooms
                \/ Len(activeRooms[r].participants) >= 2)
            => /\ activeRooms' = activeRooms
               /\ connectedUsers' = connectedUsers
               /\ joined' = joined
               /\ Len(out') = 1
               /\ out'[1].ev = "error"
               /\ out'[1].to = s
       /\ lastEvent'.ev = "http-join-room" => activeRooms' = activeRooms]_vars

\* C2 witness: a join-room was answered "Room is full" while the requester is
\* listed in another room and its record still names that room.
C2_Witness ==
    /\ lastEvent.ev = "join-room"
    /\ out = ErrorTo(lastEvent.sock, "Room is full")
    /\ \E r2 \in DOMAIN activeRooms :
          /\ r2 # lastEvent.room
          /\ sockets[lastEvent.sock] \in MemberIds(activeRooms[r2])
          /\ sockets[lastEvent.sock] \in DOMAIN connectedUsers
          /\ connectedUsers[sockets[lastEvent.sock]].roomId = r2

\* The (participant, room) pair a leave-room or disconnect step runs the leave for.
LeaveStepFor(s, r) ==
    \/ IsLeaveRoomStep(s, r)
    \/ IsDisconnectStep(s) /\ lastEvent'.room = r

C4_DisconnectNotifiesPeerOnce ==
    [][\A s \in DOMAIN sockets, r \in DOMAIN activeRooms :
          (/\ IsDisconnectStep(s)
           /\ Len(activeRooms[r].participants) = 2
           /\ \E i \in 1..2 :
                 activeRooms[r].participants[i] = [odtId |-> sockets[s], socketId |-> s])
          => LET room == activeRooms[r]
                 a == CHOOSE p \in {room.participants[i] : i \in 1..2} :
                         p.odtId # sockets[s]
             IN /\ r \in DOMAIN activeRooms'
                /\ activeRooms'[r].participants = <<a>>
                /\ Len(UserLeftMsgs(out')) = 1
                /\ UserLeftMsgs(out')[1].to = a.socketId
                /\ UserLeftMsgs(out')[1].from = sockets[s]
                /\ UserLeftMsgs(out')[1].text
                       \in {DisconnectReason(c) : c \in DisconnectCauses}]_vars

C9_RelayStaysInSendersRoom ==
    lastEvent.ev \in RelayKinds
    => \A i \in 1..Len(out) :
          \E r \in DOMAIN activeRooms :
             /\ sockets[lastEvent.sock] \in MemberIds(activeRooms[r])
             /\ out[i].to \in joined[r] \cup MemberSockets(activeRooms[r])

\* C10: the sender id on every relayed message is the authenticated id of the
\* sending connection, and the relayed messages are the same whatever sender and
\* addressee the inbound payload claims.
C10_RelayStampsAuthenticatedSender ==
    lastEvent.ev \in RelayKinds
    => /\ \A i \in 1..Len(out) : out[i].from = sockets[lastEvent.sock]
       /\ \A c \in AllClaimedIds :
             LET Relayed(f, t) ==
                     RelayHandler(ServerState, lastEvent.sock, sockets[lastEvent.sock],
                                  lastEvent.ev, lastEvent.room, lastEvent.arg, f, t).emits
             IN out = Relayed(c, NoUser) /\ out = Relayed(NoUser, c)

\* C10 witness: a relayed message was delivered to another user's connection.
C10_Witness ==
    /\ lastEvent.ev \in RelayKinds
    /\ Len(out) >= 1
    /\ sockets[out[1].to] # sockets[lastEvent.sock]
    /\ out[1].from = sockets[lastEvent.sock]

\* The candidates of a connection that were applied out of the buffer.
AppliedFromBuffer(pc) == SelectSeq(connections[pc].applied, LAMBDA e : e.held)

\* C6: every remote candidate received before the remote description is set,
\* with or without a connection object at its arrival, is applied to the
\* connection once handleOffer or handleAnswer has set the remote description and
\* flushed the buffer, in arrival order, and none is dropped.
C6_BufferedCandidatesAllApplied ==
    \A i \in 1..Len(flushed) :
        /\ flushed[i].held = <<>>
        /\ LET done == AppliedFromBuffer(flushed[i].pc)
           IN \A j \in 1..Len(done), k \in 1..Len(done) :
                 j < k => done[j].cand < done[k].cand

\* The events that can carry a remote identity.
IdentityEvents == {"offer", "answer", "user-joined", "room-users"}

\* C7: while the identity lock is set no offer, answer, user-joined or room-users
\* event changes the remote identity or the lock, and the lock is released only
\* by user-left or by a re-run of the call setup.
C7_LockedIdentityUnchanged ==
    [][/\ (remoteUserLockedRef /\ lastClientEvent'.ev \in IdentityEvents)
            => (remoteUser' = remoteUser /\ remoteUserLockedRef')
       /\ (remoteUserLockedRef /\ ~remoteUserLockedRef')
            => lastClientEvent'.ev \in {"user-left", "setup"}]_vars

\* C7 witness: an offer from a third user was handled while the identity was
\* locked on another user, and the identity is still that user's.
C7_Witness ==
    /\ lastClientEvent.ev = "offer"
    /\ remoteUserLockedRef
    /\ remoteUser # NoUser
    /\ lastClientEvent.from \notin {remoteUser, CurrentUserId}
    /\ tasks # <<>>

\* C8: the remote identity is null or the id of a user other than the session's
\* own user, in every reachable client state.
C8_RemoteIdentityNeverOwn ==
    remoteUser = NoUser \/ (remoteUser \in Users /\ remoteUser # CurrentUserId)

\* C8 witness: a user-joined carrying the session's own id was handled with the
\* lock open and no remote identity, and there is still none.
C8_Witness ==
    /\ lastClientEvent = ClientEvent("user-joined", CurrentUserId)
    /\ roleRef = "caller"
    /\ localStreamRef
    /\ ~remoteUserLockedRef
    /\ remoteUser = NoUser

\* C15: no room's participants list holds two entries with the same participant
\* id, also when a participant has several connections or reconnects.
C15_NoDuplicateParticipant ==
    \A r \in DOMAIN activeRooms :
        \A i \in 1..Len(activeRooms[r].participants),
           j \in 1..Len(activeRooms[r].participants) :
            activeRooms[r].participants[i].odtId = activeRooms[r].participants[j].odtId
                => i = j

\* C15 witness: a user listed in a room through one connection has just asked
\* to join it through another live connection and was refused.
C15_Witness ==
    /\ lastEvent.ev = "join-room"
    /\ out = ErrorTo(lastEvent.sock, AlreadyInRoomMsg)
    /\ \E i \in 1..Len(activeRooms[lastEvent.room].participants) :
          LET p == activeRooms[lastEvent.room].participants[i]
          IN /\ p.odtId = sockets[lastEvent.sock]
             /\ p.socketId # lastEvent.sock
             /\ p.socketId \in DOMAIN sockets

\* The participant ids listed per room, for every room of the registry.
Membership(rooms) == [r \in DOMAIN rooms |-> MemberIds(rooms[r])]

\* C16: a join-room by a participant already listed in the target room emits
\* exactly one message, an error to the requesting socket, and leaves every
\* room's membership as it was: the target room's and every other room's.
C16_DuplicateJoinChangesNothing ==
    [][\A s \in DOMAIN sockets, r \in DOMAIN activeRooms :
          (IsJoinStep(s, r) /\ sockets[s] \in MemberIds(activeRooms[r]))
          => /\ Len(out') = 1
             /\ out'[1].ev = "error"
             /\ out'[1].to = s
             /\ Membership(activeRooms') = Membership(activeRooms)]_vars

\* C19: in every reachable server state a participant id is listed in at most
\* one room's participants list.
C19_AtMostOneRoom ==
    \A r1 \in DOMAIN activeRooms, r2 \in DOMAIN activeRooms :
        r1 # r2 => MemberIds(activeRooms[r1]) \cap MemberIds(activeRooms[r2]) = {}

\* C20: no message of kind user-joined or room-users delivered to a connection
\* names the participant id of the user who owns that connection.
C20_NoSelfInNotifications ==
    \A i \in 1..Len(out) :
        LET m == out[i]
        IN m.to \in DOMAIN sockets
           => /\ m.ev = "user-joined" => m.from # sockets[m.to]
              /\ m.ev = "room-users"
                 => \A j \in 1..Len(m.list) : m.list[j].odtId # sockets[m.to]

\* The users who own at least one live connection.
OwnersOf(socks) == {socks[s] : s \in DOMAIN socks}

\* C18: a disconnect of a connection whose owner is listed in a room takes the
\* owner out of that room's participants and sends user-left for the owner to
\* the connection of every member who stays; and a user who owns no live
\* connection is listed in no room.
C18_DisconnectLeavesRoom ==
    [][/\ \A s \in DOMAIN sockets, r \in DOMAIN activeRooms :
            (IsDisconnectStep(s) /\ sockets[s] \in MemberIds(activeRooms[r]))
            => \/ r \notin DOMAIN activeRooms'
               \/ /\ sockets[s] \notin MemberIds(activeRooms'[r])
                  /\ \A t \in MemberSockets(activeRooms'[r]) :
                        \E i \in 1..Len(out') :
                            /\ out'[i].ev = "user-left"
                            /\ out'[i].to = t
                            /\ out'[i].from = sockets[s]
       /\ \A r \in DOMAIN activeRooms' :
            MemberIds(activeRooms'[r]) \subseteq OwnersOf(sockets')]_vars

\* The server state with a leave of user u for room r in execution.
LeaveExecuting(u, r) == [ServerState EXCEPT !.cip = @ \cup {LeaveKey(u, r)}]

\* C17: between handlers no cleanup key is in the set, whether the last leave
\* returned normally or threw; a leave started for a pair whose key is in the
\* set changes nothing and emits nothing.
C17_LeaveMarkerReleased ==
    /\ cleanupInProgress = {}
    /\ \A s \in DOMAIN sockets, r \in RoomIds :
          /\ HandleUserLeave(LeaveExecuting(sockets[s], r), s, sockets[s], r, "user left")
                 = LeaveExecuting(sockets[s], r)
          /\ HandleUserLeave(ServerState, s, sockets[s], r, "user left").cip = {}
          /\ \A at \in ThrowPoints :
                HandleUserLeaveThrowing(ServerState, s, sockets[s], r, at).cip = {}

\* C17 witness: a leave-room has just taken a member out of a room that another
\* member stays in, and told that member.
C17_Witness ==
    /\ lastEvent.ev = "leave-room"
    /\ lastEvent.room \in DOMAIN activeRooms
    /\ Len(UserLeftMsgs(out)) >= 1
    /\ cleanupInProgress = {}

\* The step has emitted the event ev.
JustEmitted(ev) == \E k \in 1..Len(emitted') : emitted'[k] = ev

C13_EveryApplicationSignificant ==
    [][\A p \in DOMAIN mediaPaths :
          (lastBitrateEvent' = BitrateEvent("applied", p) /\ bitrateTasks' # bitrateTasks)
          => ChangedSignificantly(mediaPaths'[p].maxBitrate, mediaPaths[p].maxBitrate)]_vars

\* C14: while a connection's established path is relayed, the maximum bitrate
\* of its video sender is at most the relay cap.
C14_RelayedPathCapped ==
    \A p \in DOMAIN mediaPaths :
        (/\ mediaPaths[p].relay
         /\ mediaPaths[p].ice \in Established
         /\ ~mediaPaths[p].closed)
        => mediaPaths[p].maxBitrate <= BITRATE_CONFIG.TURN_CAP

\* C21: once performCleanup has run (the effect's cleanup on socket loss, on a
\* re-run of the setup or on unmount) the session is fully reset: no local
\* stream, no peer connection, an empty candidate buffer, no role, no remote
\* identity and the identity lock open; a new call (setupCall) starts from that
\* state.
C21_CleanupResetsSession ==
    lastClientEvent.ev \in {"socket-down", "setup"}
    => /\ ~localStreamRef
       /\ peerConnectionRef = NoPc
       /\ pendingIceCandidatesRef = <<>>
       /\ roleRef = "none"
       /\ remoteUser = NoUser
       /\ ~remoteUserLockedRef

\* C22: without a local stream createPeerConnection, createOffer and handleOffer
\* return at once and change nothing, and a user-joined, offer or room-users
\* event handled without a local stream creates no connection, suspends no
\* function, emits nothing and leaves the current connection and the candidate
\* buffer as they were.
C22_NoStreamNoConnection ==
    [][~localStreamRef
       => /\ CreatePeerConnection(ClientState) = ClientState
          /\ CreateOffer(ClientState) = ClientState
          /\ HandleOffer(ClientState) = ClientState
          /\ lastClientEvent'.ev \in {"user-joined", "offer", "room-users"}
             => /\ connections' = connections
                /\ peerConnectionRef' = peerConnectionRef
                /\ pendingIceCandidatesRef' = pendingIceCandidatesRef
                /\ tasks' = tasks
                /\ emitted' = <<>>]_vars

\* C22 witness: an offer has been handled without a local stream while the
\* buffer holds candidates, and there is no connection.
C22_Witness ==
    /\ lastClientEvent.ev = "offer"
    /\ ~localStreamRef
    /\ pendingIceCandidatesRef # <<>>
    /\ peerConnectionRef = NoPc
    /\ tasks = <<>>

\* C23: no two sessions attached to the same room both have role Caller. A
\* session takes the role from the message it handles (handleUserJoined sets
\* 'caller' whatever the session's state), so of the connections subscribed to
\* a room's channel at most one is sent a message that makes its session the
\* caller.
C23_AtMostOneCaller ==
    \A r \in RoomIds :
        \A s1 \in joined[r], s2 \in joined[r] :
            (\A s \in {s1, s2} :
                /\ s \in DOMAIN sockets
                /\ \E i \in 1..Len(out) :
                      /\ out[i].to = s
                      /\ PartyHandler(sockets[s], NewSession, out[i]).role = "caller")
            => s1 = s2

\* C24: a user-joined for another user handled by a session that has a local
\* stream makes the session the caller, makes the joining user its locked
\* remote identity and starts the creation of an offer on the current
\* connection, whatever the role and the lock were before.
C24_UserJoinedStartsOffer ==
    [][\A u \in Users \ {CurrentUserId} :
          (lastClientEvent' = ClientEvent("user-joined", u) /\ localStreamRef)
          => /\ roleRef' = "caller"
             /\ remoteUser' = u
             /\ remoteUserLockedRef'
             /\ \E k \in 1..Len(tasks') :
                   /\ tasks'[k].kind = "createOffer"
                   /\ tasks'[k].pc = peerConnectionRef']_vars

\* C25: a session emits an offer only while its role is caller; a session whose
\* role is joiner, and one whose role is not set, emits none.
C25_OfferOnlyAsCaller ==
    [][JustEmitted("offer") => (roleRef = "caller" /\ roleRef' = "caller")]_vars

C27_UserLeftFrame ==
    [][lastClientEvent'.ev = "user-left"
       => /\ remoteUser' = NoUser
          /\ ~remoteUserLockedRef'
          /\ roleRef' = "none"
          /\ ~remoteStreamRef'
          /\ localStreamRef' = localStreamRef
          /\ isAudioEnabled' = isAudioEnabled
          /\ isVideoEnabled' = isVideoEnabled
          /\ peerConnectionRef' = peerConnectionRef
          /\ cleanupPerformedRef' = cleanupPerformedRef
          /\ emitted' = <<>>]_vars

\* C27 witness: user-left was handled by a session that has a local stream with
\* the microphone switched off and a connection holding the peer's offer.
C27_Witness ==
    /\ lastClientEvent.ev = "user-left"
    /\ localStreamRef
    /\ ~isAudioEnabled
    /\ isVideoEnabled
    /\ ~remoteStreamRef
    /\ peerConnectionRef # NoPc
    /\ connections[peerConnectionRef].remoteDescription = "offer"

\* C28: handleAnswer sets the answer only on a connection with an outstanding
\* local offer. Without a connection it does nothing at all; on a connection
\* that has no outstanding local offer (none sent yet, or the answer already
\* applied) it starts no setRemoteDescription and leaves every connection's
\* signaling state and remote description as they were, so a second answer
\* changes nothing the first has set; and a remote description becomes an
\* answer only in the resumption of a handleAnswer on a connection that has an
\* outstanding local offer.
C28_AnswerOnlyAfterLocalOffer ==
    [][LET Described(pcs) ==
               [i \in DOMAIN pcs |-> <<pcs[i].signalingState, pcs[i].remoteDescription>>]
           Setting(ts) ==
               {k \in 1..Len(ts) : ts[k].kind = "handleAnswer" /\ ts[k].stage = "srd"}
       IN /\ peerConnectionRef = NoPc => HandleAnswer(ClientState) = ClientState
          /\ (peerConnectionRef # NoPc /\ ~AwaitsAnswer(connections[peerConnectionRef]))
             => /\ Described(HandleAnswer(ClientState).pcs) = Described(connections)
                /\ Setting(HandleAnswer(ClientState).tasks) = Setting(tasks)
          /\ lastClientEvent'.ev = "answer"
             => /\ Described(connections') = Described(connections)
                /\ (peerConnectionRef = NoPc
                      \/ ~AwaitsAnswer(connections[peerConnectionRef]))
                   => Setting(tasks') = Setting(tasks)
          /\ \A i \in DOMAIN connections :
                (/\ connections'[i].remoteDescription = "answer"
                 /\ connections[i].remoteDescription # "answer")
                => /\ AwaitsAnswer(connections[i])
                   /\ lastClientEvent'.ev = "resume"
                   /\ Setting(tasks) # {}]_vars

\* C28 witness: an answer was handled on a connection that already has an
\* answer as its remote description, and no setRemoteDescription is under way.
C28_Witness ==
    /\ lastClientEvent.ev = "answer"
    /\ peerConnectionRef # NoPc
    /\ connections[peerConnectionRef].remoteDescription = "answer"
    /\ connections[peerConnectionRef].signalingState = "stable"
    /\ \A k \in 1..Len(tasks) : tasks[k].stage # "srd"

\* C29: the candidates applied to a connection are applied in their order of
\* arrival, also when one arrives while a flush of the buffer is under way.
C29_AppliedInArrivalOrder ==
    \A pc \in DOMAIN connections :
        \A j \in 1..Len(connections[pc].applied), k \in 1..Len(connections[pc].applied) :
            j < k => connections[pc].applied[j].cand < connections[pc].applied[k].cand

\* C30: the quality the timer callback derives from a statistics sample is good
\* exactly when the round-trip time is below 100 ms and the loss rate below
\* 2%, poor exactly when the round-trip time is at least 250 ms or the loss
\* rate at least 5%, and medium otherwise.
C30_QualityClassification ==
    [][\A i \in 1..MaxBitrateTasks, stats \in Samples :
          (/\ i <= Len(bitrateTasks)
           /\ bitrateTasks[i].kind = "interval"
           /\ ResumeBitrate(i, TRUE, stats))
          => LET q == AnalyzeNetworkQuality(stats)
                 good == /\ q.rtt < NETWORK_THRESHOLDS.GOOD_RTT
                         /\ q.packetsLost * 100
                                < NETWORK_THRESHOLDS.GOOD_PACKET_LOSS * q.packetsSent
                 poor == \/ q.rtt >= NETWORK_THRESHOLDS.MEDIUM_RTT
                         \/ q.packetsLost * 100
                                >= NETWORK_THRESHOLDS.MEDIUM_PACKET_LOSS * q.packetsSent
             IN Quality(q) = IF good THEN "good" ELSE IF poor THEN "poor" ELSE "medium"]_vars

\* C31: the target the timer callback computes from a sample is fixed by the
\* quality tier and the relay flag alone: 5 Mbps for good, 2 Mbps for medium,
\* 800 kbps for poor, and the smaller of that and 1.5 Mbps when the relay flag
\* is set; the bitrate applied so far has no part in it, and a bitrate that a
\* callback awaiting its statistics goes on to apply is that target.
C31_TargetFromTierAndRelay ==
    \A stats \in Samples :
        LET q == AnalyzeNetworkQuality(stats)
            table == IF Quality(q) = "good" THEN 5000000
                     ELSE IF Quality(q) = "medium" THEN 2000000
                     ELSE 800000
            expected == IF isUsingTurnRef /\ 1500000 < table THEN 1500000 ELSE table
        IN /\ CalculateTargetBitrate(q, isUsingTurnRef) = expected
           /\ \A i \in DOMAIN bitrateTasks :
                 bitrateTasks[i].kind = "interval"
                 => LET after == ResumeBitrateTask(BitrateState, bitrateTasks[i], TRUE,
                                                   stats).tasks
                    IN \/ after = bitrateTasks
                       \/ after = Append(bitrateTasks,
                                         BitrateTask("applyBitrate", bitrateTasks[i].pc,
                                                     expected))

\* A relayed connection's callback has computed the capped target while the
\* bitrate applied so far is another one.
C31_Witness ==
    /\ isUsingTurnRef
    /\ \E i \in DOMAIN bitrateTasks :
          /\ bitrateTasks[i].kind = "applyBitrate"
          /\ bitrateTasks[i].target = BITRATE_CONFIG.TURN_CAP
          /\ currentBitrateRef \notin {BITRATE_CONFIG.START, BITRATE_CONFIG.TURN_CAP}

\* C32: at most one sampling timer is live at any time; a live timer samples
\* the current connection, which is not closed (so closePeerConnection and
\* cleanup leave no timer behind); a timer comes into being only in a step in
\* which its connection's ICE state becomes connected or completed, and that
\* step starts the application of the start bitrate to the connection's video
\* sender.
C32_TimerLifecycle ==
    [][/\ Len(bitrateTimers') <= 1
       /\ \A k \in DOMAIN bitrateTimers' :
             /\ bitrateTimers'[k] = Len(mediaPaths')
             /\ bitrateTimers'[k] = bitrateIntervalRef'
             /\ ~mediaPaths'[bitrateTimers'[k]].closed
       /\ (bitrateTimers' # bitrateTimers /\ bitrateTimers' # <<>>)
             => LET pc == bitrateTimers'[Len(bitrateTimers')]
                IN /\ pc \in DOMAIN mediaPaths
                   /\ mediaPaths'[pc].ice \in Established
                   /\ mediaPaths'[pc].ice # mediaPaths[pc].ice
                   /\ mediaPaths'[pc].video
                         => /\ bitrateTasks' # <<>>
                            /\ bitrateTasks'[Len(bitrateTasks')]
                                  = BitrateTask("applyBitrate", pc,
                                                BITRATE_CONFIG.START)]_vars

\* The second connection of the session has a timer of its own, after the
\* first one's timer went with its connection, and the start bitrate is being
\* applied to it while the recorded bitrate is still the first connection's.
C32_Witness ==
    /\ Len(mediaPaths) = 2
    /\ mediaPaths[1].closed
    /\ mediaPaths[1].maxBitrate = BITRATE_CONFIG.POOR
    /\ bitrateTimers = <<2>>
    /\ currentBitrateRef = BITRATE_CONFIG.POOR
    /\ BitrateTask("applyBitrate", 2, BITRATE_CONFIG.START)
          \in {bitrateTasks[i] : i \in DOMAIN bitrateTasks}

\* C33: once the session is torn down (its connection closed and the
\* controller reset, no new connection made yet), a controller function that
\* was suspended at the teardown and resumes now changes neither the relay flag
\* nor the current bitrate, and sets no timer.
C33_LateResultsChangeNothing ==
    [][(/\ CurrentPath(BitrateState) = NoPc
        /\ mediaPaths # <<>>
        /\ Len(mediaPaths') = Len(mediaPaths)
        /\ bitrateTasks' # bitrateTasks)
       => /\ isUsingTurnRef' = isUsingTurnRef
          /\ currentBitrateRef' = currentBitrateRef
          /\ bitrateTimers' = <<>>]_vars

\* C34: a leave that passes the cleanup-key guard ends with all three steps
\* done, also when a Socket.IO call inside it throws: the connection is out of
\* the room's channel, the user is out of the room's participants, and the
\* user's record names no room.
C34_LeaveCompletesAllSteps ==
    \A s \in DOMAIN sockets, r \in DOMAIN activeRooms, at \in ThrowPoints :
        LET u == sockets[s]
            st == HandleUserLeaveThrowing(ServerState, s, u, r, at)
        IN (/\ LeaveKey(u, r) \notin cleanupInProgress
            /\ at = "emit" => LeaveNotifies(activeRooms, u, r))
           => /\ s \notin st.chan[r]
              /\ r \in DOMAIN st.rooms => u \notin MemberIds(st.rooms[r])
              /\ u \in DOMAIN st.users => st.users[u].roomId = NoRoom

\* C35: the connection id of every member entry is the member's current live
\* connection: the connection is open, belongs to the member, and is the one
\* the member's connected-user record names.
C35_MemberConnectionCurrent ==
    \A r \in DOMAIN activeRooms :
        \A i \in 1..Len(activeRooms[r].participants) :
            LET p == activeRooms[r].participants[i]
            IN /\ p.socketId \in DOMAIN sockets
               /\ sockets[p.socketId] = p.odtId
               /\ p.odtId \in DOMAIN connectedUsers
               /\ connectedUsers[p.odtId].socketId = p.socketId

\* C36: a sweep deletes exactly the rooms that have no participant and are
\* older than 24 hours; every other room (one with a participant, however
\* old, and an empty one that is not older than 24 hours) stays as it was.
C36_SweepDeletesExactlyStale ==
    [][lastEvent'.ev = "sweep"
       => /\ DOMAIN activeRooms'
                = {r \in DOMAIN activeRooms :
                       \/ Len(activeRooms[r].participants) > 0
                       \/ ~activeRooms[r].old}
          /\ \A r \in DOMAIN activeRooms' : activeRooms'[r] = activeRooms[r]]_vars

\* A sweep has just removed a room and has left a room that is older than 24
\* hours and has a participant.
C36_Witness ==
    /\ lastEvent.ev = "sweep"
    /\ lastEvent.arg = "removed"
    /\ \E r \in DOMAIN activeRooms :
          activeRooms[r].old /\ Len(activeRooms[r].participants) > 0

\* C37: between handlers the two registries agree: the users that have a
\* connected-user record are the users that have a live connection, and a
\* record names room R exactly if its user is listed in R's participants (and
\* names no room exactly if the user is listed in no room).
C37_RegistriesAgree ==
    /\ DOMAIN connectedUsers = {sockets[s] : s \in DOMAIN sockets}
    /\ \A r \in DOMAIN activeRooms :
          MemberIds(activeRooms[r]) \subseteq DOMAIN connectedUsers
    /\ \A u \in DOMAIN connectedUsers :
          /\ \A r \in DOMAIN activeRooms :
                connectedUsers[u].roomId = r <=> u \in MemberIds(activeRooms[r])
          /\ connectedUsers[u].roomId \in {NoRoom} \cup DOMAIN activeRooms

\* C38: between handlers the connections subscribed to a room's channel are
\* the connections named by the room's participants list (none for a room
\* that does not exist), so that a broadcast to the room reaches the listed
\* members and nobody else.
C38_ChannelMatchesParticipants ==
    \A r \in RoomIds :
        joined[r] = IF r \in DOMAIN activeRooms
                    THEN MemberSockets(activeRooms[r])
                    ELSE {}

\* C39: when the join-room for room R of a connection that is not one of R's
\* member connections has just been refused ("Room is full", or the user is in
\* R already through another connection), the connection's leave-room for R or
\* its disconnect removes no member from R and sends no user-left to a
\* connection subscribed to R.
C39_RejectedJoinerLeavesNothing ==
    [][\A s \in DOMAIN sockets, r \in DOMAIN activeRooms :
          (/\ lastEvent = Event("join-room", s, r, "")
           /\ out \in {ErrorTo(s, "Room is full"), ErrorTo(s, AlreadyInRoomMsg)}
           /\ s \notin MemberSockets(activeRooms[r])
           /\ IsLeaveRoomStep(s, r) \/ IsDisconnectStep(s))
          => /\ r \in DOMAIN activeRooms'
             /\ activeRooms'[r].participants = activeRooms[r].participants
             /\ \A i \in DOMAIN out' :
                   out'[i].ev = "user-left" => out'[i].to \notin joined[r]]_vars

\* C40: in every reachable state of the session the identity lock is closed
\* exactly if a remote identity is stored.
C40_LockedIffRemoteIdentity ==
    remoteUserLockedRef <=> remoteUser # NoUser

\* How many times party p has emitted the event ev.
TimesSent(p, ev) == Len(SelectSeq(sent[p], LAMBDA e : e = ev))

\* B is listed in the room of the call.
BHasJoined ==
    /\ CallRoomId \in DOMAIN activeRooms
    /\ 2 \in MemberIds(activeRooms[CallRoomId])

\* The server has just handled B's join-room and admitted B.
BJustJoined ==
    /\ BHasJoined
    /\ lastEvent.ev = "join-room"
    /\ lastEvent.sock = SocketOf(2)

\* The call is set up: A is the caller and names B, B is the joiner and names A,
\* one offer and one answer have been sent, and both sessions are connected.
CallEstablished ==
    /\ session[1].role = "caller"
    /\ session[2].role = "joiner"
    /\ AsSeenBy(1, session[1].remote) = 2
    /\ AsSeenBy(2, session[2].remote) = 1
    /\ TimesSent(1, "offer") = 1
    /\ TimesSent(2, "answer") = 1
    /\ \A p \in Parties : connectionState[p] = "connected"

\* C11: with A alone in the room it created, the join of B makes the server
\* send user-joined for B to A and room-users listing A alone to B; A never
\* sends more than one offer and no answer, B sends no offer and at most one
\* answer, A's role is never joiner and B's never caller; and, messages being
\* delivered, awaits being fulfilled and the negotiated media path completing,
\* the join leads to A being the caller, B the joiner, one offer and one answer
\* sent and both sessions connected.
C11_JoinLeadsToConnectedCall ==
    /\ [](BJustJoined
            => out = <<Msg(SocketOf(1), "user-joined", 2, "", <<>>),
                       Msg(SocketOf(2), "room-users", 0, "",
                           <<[odtId |-> 1, socketId |-> SocketOf(1)]>>)>>)
    /\ [](/\ TimesSent(1, "offer") <= 1
          /\ TimesSent(1, "answer") = 0
          /\ TimesSent(2, "offer") = 0
          /\ TimesSent(2, "answer") <= 1
          /\ session[1].role # "joiner"
          /\ session[2].role # "caller")
    /\ (BHasJoined ~> CallEstablished)

\* C11 witness: B has joined the room A was alone in and the call is set up.
C11_Witness == BHasJoined /\ CallEstablished

====
